---- MODULE Spec2Model ----
(***************************************************************************)
(* Model of certificate/certificate.go of tls-observatory: the conversion  *)
(* of a parsed X.509 certificate into its stored form (CertToStored), the  *)
(* fingerprints, the trust-store validity conversions and the Subject      *)
(* helpers.                                                                *)
(*                                                                         *)
(* Go values are modelled as follows.                                      *)
(*   string   a sequence of one-character strings where the text is        *)
(*            computed on (names of a Subject, hex, base64), a TLA+ string *)
(*            where it is only stored and compared (domain, ip, TSName).   *)
(*   []T      a record [isNil, elems]: Go distinguishes a nil slice from   *)
(*            an empty one, and len() is 0 for both.                       *)
(*   map      a record [isNil, kv], kv a function on the keys present.     *)
(*   []byte   a sequence of numbers in 0..255.                             *)
(***************************************************************************)
EXTENDS Integers, Sequences, FiniteSets, TLC

VARIABLES
    pc,      \* position of the caller: which call is pending or has returned
    now,     \* the reading of the wall clock (time.Now)
    cert,    \* the parsed certificate handed to CertToStored
    args,    \* the other arguments of CertToStored
    stored,  \* the record CertToStored returned
    again,   \* the record returned by canonicalizing stored.Raw a second time
    arg,     \* the argument of a pending call of a pure function
    ret      \* what that call returned

vars == <<pc, now, cert, args, stored, again, arg, ret>>

None == [none |-> TRUE]

\* ------------------------------------------------------------------ bounds

MaxList == 2        \* longest Country list of a Subject
MaxClock == 1       \* the clock readings are 0..MaxClock
MaxPermitted == 1   \* most permitted DNS domains of a certificate
MaxVersion == 3     \* certificate versions are 1..MaxVersion

\* ------------------------------------------------------------- Go slices

NilSlice == [isNil |-> TRUE, elems |-> <<>>]

\* make([]T, 0)
MakeSlice == [isNil |-> FALSE, elems |-> <<>>]

SliceOf(seq) == [isNil |-> FALSE, elems |-> seq]

GoLen(s) == Len(s.elems)

\* append(s, x)
AppendOne(s, x) == [isNil |-> FALSE, elems |-> Append(s.elems, x)]

\* append(s, t...): appending nothing returns s itself, nil or not
AppendAll(s, t) ==
    IF GoLen(t) = 0 THEN s ELSE [isNil |-> FALSE, elems |-> s.elems \o t.elems]

\* ---------------------------------------------------------------- Go maps

\* make(map[K]V)
MakeMap == [isNil |-> FALSE, kv |-> <<>>]

NilMap == [isNil |-> TRUE, kv |-> <<>>]

\* m[k] = v
MapSet(m, k, v) ==
    [isNil |-> FALSE,
     kv |-> [x \in (DOMAIN m.kv) \cup {k} |-> IF x = k THEN v ELSE m.kv[x]]]

\* v, ok := m[k]: the zero value and ok = false for a key that is absent
MapLookup(m, k, zero) ==
    IF k \in DOMAIN m.kv THEN [v |-> m.kv[k], ok |-> TRUE]
    ELSE [v |-> zero, ok |-> FALSE]

\* ------------------------------------------------------------ trust stores

Ubuntu_TS_name == "Ubuntu"
Mozilla_TS_name == "Mozilla"
Microsoft_TS_name == "Microsoft"
Apple_TS_name == "Apple"
Android_TS_name == "Android"

TrustStoreNames ==
    {Ubuntu_TS_name, Mozilla_TS_name, Microsoft_TS_name, Apple_TS_name, Android_TS_name}

\* the zero value of type ValidationInfo
ZeroValidationInfo == [IsValid |-> FALSE, ValidationError |-> ""]

\* faulty variant: the Apple result is read from the Android key
GetBooleanValidity_SwappedKey(c) ==
    LET look(k) == MapLookup(c.ValidationInfo, k, ZeroValidationInfo)
        flag(k) == IF ~look(k).ok THEN FALSE ELSE look(k).v.IsValid
    IN  <<flag(Ubuntu_TS_name), flag(Mozilla_TS_name), flag(Microsoft_TS_name),
          flag(Android_TS_name), flag(Android_TS_name)>>

\* GetBooleanValidity: <<trusted_ubuntu, trusted_mozilla, trusted_microsoft,
\* trusted_apple, trusted_android>>
GetBooleanValidity(c) ==
    LET u == MapLookup(c.ValidationInfo, Ubuntu_TS_name, ZeroValidationInfo)
        trusted_ubuntu == IF ~u.ok THEN FALSE ELSE u.v.IsValid
        m == MapLookup(c.ValidationInfo, Mozilla_TS_name, ZeroValidationInfo)
        trusted_mozilla == IF ~m.ok THEN FALSE ELSE m.v.IsValid
        ms == MapLookup(c.ValidationInfo, Microsoft_TS_name, ZeroValidationInfo)
        trusted_microsoft == IF ~ms.ok THEN FALSE ELSE ms.v.IsValid
        a == MapLookup(c.ValidationInfo, Apple_TS_name, ZeroValidationInfo)
        trusted_apple == IF ~a.ok THEN FALSE ELSE a.v.IsValid
        an == MapLookup(c.ValidationInfo, Android_TS_name, ZeroValidationInfo)
        trusted_android == IF ~an.ok THEN FALSE ELSE an.v.IsValid
    IN  <<trusted_ubuntu, trusted_mozilla, trusted_microsoft, trusted_apple,
          trusted_android>>

\* faulty variant: the Apple key is given the Android verdict
GetValidityMap_SwappedValues(trusted_ubuntu, trusted_mozilla, trusted_microsoft, trusted_apple, trusted_android) ==
    LET vUbuntu == [IsValid |-> trusted_ubuntu, ValidationError |-> ""]
        vMozilla == [IsValid |-> trusted_mozilla, ValidationError |-> ""]
        vMicrosoft == [IsValid |-> trusted_microsoft, ValidationError |-> ""]
        vAndroid == [IsValid |-> trusted_android, ValidationError |-> ""]
        m0 == MakeMap
        m1 == MapSet(m0, Ubuntu_TS_name, vUbuntu)
        m2 == MapSet(m1, Mozilla_TS_name, vMozilla)
        m3 == MapSet(m2, Microsoft_TS_name, vMicrosoft)
        m4 == MapSet(m3, Apple_TS_name, vAndroid)
        m5 == MapSet(m4, Android_TS_name, vAndroid)
    IN  m5

\* GetValidityMap: ValidationInfo{IsValid: b} leaves ValidationError ""
GetValidityMap(trusted_ubuntu, trusted_mozilla, trusted_microsoft, trusted_apple, trusted_android) ==
    LET vUbuntu == [IsValid |-> trusted_ubuntu, ValidationError |-> ""]
        vMozilla == [IsValid |-> trusted_mozilla, ValidationError |-> ""]
        vMicrosoft == [IsValid |-> trusted_microsoft, ValidationError |-> ""]
        vApple == [IsValid |-> trusted_apple, ValidationError |-> ""]
        vAndroid == [IsValid |-> trusted_android, ValidationError |-> ""]
        m0 == MakeMap
        m1 == MapSet(m0, Ubuntu_TS_name, vUbuntu)
        m2 == MapSet(m1, Mozilla_TS_name, vMozilla)
        m3 == MapSet(m2, Microsoft_TS_name, vMicrosoft)
        m4 == MapSet(m3, Apple_TS_name, vApple)
        m5 == MapSet(m4, Android_TS_name, vAndroid)
    IN  m5

\* --------------------------------------------------------------- key usage

\* crypto/x509: KeyUsageDigitalSignature KeyUsage = 1 << iota, and so on
KeyUsageDigitalSignature == 2^0
KeyUsageContentCommitment == 2^1
KeyUsageKeyEncipherment == 2^2
KeyUsageDataEncipherment == 2^3
KeyUsageKeyAgreement == 2^4
KeyUsageCertSign == 2^5
KeyUsageCRLSign == 2^6
KeyUsageEncipherOnly == 2^7
KeyUsageDecipherOnly == 2^8

\* keyUsage & mask != 0, for a mask of one bit
HasBit(keyUsage, mask) == (keyUsage \div mask) % 2 = 1

AppendIf(cond, usage, name) == IF cond THEN AppendOne(usage, name) ELSE usage

\* faulty variant: the CRL Sign bit is tested before the Certificate Sign bit
getKeyUsages_SwappedOrder(c) ==
    LET keyUsage == c.KeyUsage
        u0 == MakeSlice
        u1 == AppendIf(HasBit(keyUsage, KeyUsageDigitalSignature), u0, "Digital Signature")
        u2 == AppendIf(HasBit(keyUsage, KeyUsageContentCommitment), u1, "Non Repudiation")
        u3 == AppendIf(HasBit(keyUsage, KeyUsageKeyEncipherment), u2, "Key Encipherment")
        u4 == AppendIf(HasBit(keyUsage, KeyUsageDataEncipherment), u3, "Data Encipherment")
        u5 == AppendIf(HasBit(keyUsage, KeyUsageKeyAgreement), u4, "Key Agreement")
        u6 == AppendIf(HasBit(keyUsage, KeyUsageCRLSign), u5, "CRL Sign")
        u7 == AppendIf(HasBit(keyUsage, KeyUsageCertSign), u6, "Certificate Sign")
        u8 == AppendIf(HasBit(keyUsage, KeyUsageEncipherOnly), u7, "Encipher Only")
        u9 == AppendIf(HasBit(keyUsage, KeyUsageDecipherOnly), u8, "Decipher Only")
    IN  u9

getKeyUsages(c) ==
    LET keyUsage == c.KeyUsage
        u0 == MakeSlice
        u1 == AppendIf(HasBit(keyUsage, KeyUsageDigitalSignature), u0, "Digital Signature")
        u2 == AppendIf(HasBit(keyUsage, KeyUsageContentCommitment), u1, "Non Repudiation")
        u3 == AppendIf(HasBit(keyUsage, KeyUsageKeyEncipherment), u2, "Key Encipherment")
        u4 == AppendIf(HasBit(keyUsage, KeyUsageDataEncipherment), u3, "Data Encipherment")
        u5 == AppendIf(HasBit(keyUsage, KeyUsageKeyAgreement), u4, "Key Agreement")
        u6 == AppendIf(HasBit(keyUsage, KeyUsageCertSign), u5, "Certificate Sign")
        u7 == AppendIf(HasBit(keyUsage, KeyUsageCRLSign), u6, "CRL Sign")
        u8 == AppendIf(HasBit(keyUsage, KeyUsageEncipherOnly), u7, "Encipher Only")
        u9 == AppendIf(HasBit(keyUsage, KeyUsageDecipherOnly), u8, "Decipher Only")
    IN  u9

\* ----------------------------------------------------------------- strings

\* the separator ", " of String()
Comma == <<",", " ">>

RECURSIVE StringsJoin(_, _)
\* strings.Join(elems, sep) on a sequence of strings
StringsJoin(elems, sep) ==
    IF Len(elems) = 0 THEN <<>>
    ELSE IF Len(elems) = 1 THEN elems[1]
    ELSE elems[1] \o sep \o StringsJoin(Tail(elems), sep)

HasPrefix(s, p) == Len(s) >= Len(p) /\ SubSeq(s, 1, Len(p)) = p

HasSuffix(s, p) == Len(s) >= Len(p) /\ SubSeq(s, Len(s) - Len(p) + 1, Len(s)) = p

\* ----------------------------------------------------------------- Subject

\* faulty variant: the CN component is appended even when the name is empty
Subject_String_TrailingSep(s) ==
    LET c0 == NilSlice
        c1 == IF GoLen(s.Country) > 0
              THEN AppendOne(c0, <<"C", "=">> \o StringsJoin(s.Country.elems, Comma \o <<"C", "=">>))
              ELSE c0
        c2 == IF GoLen(s.Organisation) > 0
              THEN AppendOne(c1, <<"O", "=">> \o StringsJoin(s.Organisation.elems, Comma \o <<"O", "=">>))
              ELSE c1
        c3 == IF GoLen(s.OrgUnit) > 0
              THEN AppendOne(c2, <<"O", "U", "=">> \o StringsJoin(s.OrgUnit.elems, Comma \o <<"O", "U", "=">>))
              ELSE c2
        c4 == AppendOne(c3, <<"C", "N", "=">> \o s.CommonName)
    IN  StringsJoin(c4.elems, Comma)

\* (s Subject) String()
Subject_String(s) ==
    LET comp0 == NilSlice
        comp1 == IF GoLen(s.Country) > 0
                 THEN AppendOne(comp0, <<"C", "=">> \o StringsJoin(s.Country.elems, Comma \o <<"C", "=">>))
                 ELSE comp0
        comp2 == IF GoLen(s.Organisation) > 0
                 THEN AppendOne(comp1, <<"O", "=">> \o StringsJoin(s.Organisation.elems, Comma \o <<"O", "=">>))
                 ELSE comp1
        comp3 == IF GoLen(s.OrgUnit) > 0
                 THEN AppendOne(comp2, <<"O", "U", "=">> \o StringsJoin(s.OrgUnit.elems, Comma \o <<"O", "U", "=">>))
                 ELSE comp2
        comp4 == IF Len(s.CommonName) > 0
                 THEN AppendOne(comp3, <<"C", "N", "=">> \o s.CommonName)
                 ELSE comp3
    IN  StringsJoin(comp4.elems, Comma)

\* faulty variant: the countries are compared by length only
IsSelfSigned_NoCountryLoop(c) ==
    IF \/ c.Subject.CommonName # c.Issuer.CommonName
       \/ GoLen(c.Subject.Organisation) # GoLen(c.Issuer.Organisation)
       \/ GoLen(c.Subject.OrgUnit) # GoLen(c.Issuer.OrgUnit)
       \/ GoLen(c.Subject.Country) # GoLen(c.Issuer.Country)
    THEN FALSE
    ELSE IF \E i \in 1..GoLen(c.Subject.Organisation) :
                c.Subject.Organisation.elems[i] # c.Issuer.Organisation.elems[i]
    THEN FALSE
    ELSE IF \E i \in 1..GoLen(c.Subject.OrgUnit) :
                c.Subject.OrgUnit.elems[i] # c.Issuer.OrgUnit.elems[i]
    THEN FALSE
    ELSE TRUE

\* (c Certificate) IsSelfSigned(): each loop returns false at the first index
\* where the two lists differ
IsSelfSigned(c) ==
    IF \/ c.Subject.CommonName # c.Issuer.CommonName
       \/ GoLen(c.Subject.Organisation) # GoLen(c.Issuer.Organisation)
       \/ GoLen(c.Subject.OrgUnit) # GoLen(c.Issuer.OrgUnit)
       \/ GoLen(c.Subject.Country) # GoLen(c.Issuer.Country)
    THEN FALSE
    ELSE IF \E i \in 1..GoLen(c.Subject.Organisation) :
                c.Subject.Organisation.elems[i] # c.Issuer.Organisation.elems[i]
    THEN FALSE
    ELSE IF \E i \in 1..GoLen(c.Subject.OrgUnit) :
                c.Subject.OrgUnit.elems[i] # c.Issuer.OrgUnit.elems[i]
    THEN FALSE
    ELSE IF \E i \in 1..GoLen(c.Subject.Country) :
                c.Subject.Country.elems[i] # c.Issuer.Country.elems[i]
    THEN FALSE
    ELSE TRUE

\* ------------------------------------------------------------- encodings

RECURSIVE SumBytes(_)
SumBytes(data) == IF Len(data) = 0 THEN 0 ELSE data[1] + SumBytes(Tail(data))

\* A stand-in for a cryptographic digest (crypto/md5, crypto/sha1,
\* crypto/sha256): size bytes that are a function of the data alone.
Digest(data, size) ==
    LET seed == SumBytes(data) + 31 * Len(data)
    IN  [i \in 1..size |-> (seed + 7 * i) % 256]

Md5Sum(data) == Digest(data, 16)

Sha1Sum(data) == Digest(data, 20)

Sha256Sum(data) == Digest(data, 32)

UpperHexDigits ==
    <<"0", "1", "2", "3", "4", "5", "6", "7", "8", "9", "A", "B", "C", "D", "E", "F">>

LowerHexDigits ==
    <<"0", "1", "2", "3", "4", "5", "6", "7", "8", "9", "a", "b", "c", "d", "e", "f">>

RECURSIVE HexWith(_, _)
HexWith(digits, data) ==
    IF Len(data) = 0 THEN <<>>
    ELSE <<digits[(data[1] \div 16) + 1], digits[(data[1] % 16) + 1]>>
         \o HexWith(digits, Tail(data))

\* fmt.Sprintf("%X", data)
SprintfX(data) == HexWith(UpperHexDigits, data)

\* hex.EncodeToString(data)
HexEncodeToString(data) == HexWith(LowerHexDigits, data)

\* strings.ToUpper on the characters a hex string holds
ToUpper(s) ==
    [k \in 1..Len(s) |->
        IF \E d \in 11..16 : LowerHexDigits[d] = s[k]
        THEN UpperHexDigits[CHOOSE d \in 11..16 : LowerHexDigits[d] = s[k]]
        ELSE s[k]]

RECURSIVE Itoa(_)
\* the decimal text of a natural number (big.Int String and MarshalText)
Itoa(n) ==
    IF n < 10 THEN <<UpperHexDigits[n + 1]>>
    ELSE Itoa(n \div 10) \o <<UpperHexDigits[(n % 10) + 1]>>

RECURSIVE BitLen(_)
\* big.Int BitLen
BitLen(n) == IF n = 0 THEN 0 ELSE 1 + BitLen(n \div 2)

B64Alphabet ==
    <<"A", "B", "C", "D", "E", "F", "G", "H", "I", "J", "K", "L", "M", "N", "O", "P",
      "Q", "R", "S", "T", "U", "V", "W", "X", "Y", "Z", "a", "b", "c", "d", "e", "f",
      "g", "h", "i", "j", "k", "l", "m", "n", "o", "p", "q", "r", "s", "t", "u", "v",
      "w", "x", "y", "z", "0", "1", "2", "3", "4", "5", "6", "7", "8", "9", "+", "/">>

B64Char(v) == B64Alphabet[v + 1]

RECURSIVE RawEncodeToString(_)
\* faulty variant of StdEncodeToString: base64 without padding, as
\* base64.RawStdEncoding writes it
RawEncodeToString(src) ==
    IF Len(src) = 0 THEN <<>>
    ELSE IF Len(src) = 1
    THEN <<B64Char(src[1] \div 4), B64Char((src[1] % 4) * 16)>>
    ELSE IF Len(src) = 2
    THEN <<B64Char(src[1] \div 4), B64Char((src[1] % 4) * 16 + src[2] \div 16),
           B64Char((src[2] % 16) * 4)>>
    ELSE <<B64Char(src[1] \div 4), B64Char((src[1] % 4) * 16 + src[2] \div 16),
           B64Char((src[2] % 16) * 4 + src[3] \div 64), B64Char(src[3] % 64)>>
         \o RawEncodeToString(SubSeq(src, 4, Len(src)))

RECURSIVE StdEncodeToString(_)
\* base64.StdEncoding.EncodeToString: three bytes to four characters, the last
\* group padded with "="
StdEncodeToString(src) ==
    IF Len(src) = 0 THEN <<>>
    ELSE IF Len(src) = 1
    THEN <<B64Char(src[1] \div 4), B64Char((src[1] % 4) * 16), "=", "=">>
    ELSE IF Len(src) = 2
    THEN <<B64Char(src[1] \div 4), B64Char((src[1] % 4) * 16 + src[2] \div 16),
           B64Char((src[2] % 16) * 4), "=">>
    ELSE <<B64Char(src[1] \div 4), B64Char((src[1] % 4) * 16 + src[2] \div 16),
           B64Char((src[2] % 16) * 4 + src[3] \div 64), B64Char(src[3] % 64)>>
         \o StdEncodeToString(SubSeq(src, 4, Len(src)))

IsB64Char(c) == \E v \in 1..64 : B64Alphabet[v] = c

B64Value(c) == (CHOOSE v \in 1..64 : B64Alphabet[v] = c) - 1

RECURSIVE StdDecodeString(_)
\* base64.StdEncoding.DecodeString: [bytes, err]; the text comes in groups of
\* four characters and only the last group may be padded
StdDecodeString(s) ==
    IF Len(s) = 0 THEN [bytes |-> <<>>, err |-> FALSE]
    ELSE IF Len(s) < 4 THEN [bytes |-> <<>>, err |-> TRUE]
    ELSE IF ~IsB64Char(s[1]) \/ ~IsB64Char(s[2]) THEN [bytes |-> <<>>, err |-> TRUE]
    ELSE LET a == B64Value(s[1])
             b == B64Value(s[2])
             b1 == a * 4 + b \div 16
         IN  IF s[3] = "=" /\ s[4] = "="
             THEN [bytes |-> <<b1>>, err |-> Len(s) > 4]
             ELSE IF ~IsB64Char(s[3]) THEN [bytes |-> <<>>, err |-> TRUE]
             ELSE LET c == B64Value(s[3])
                      b2 == (b % 16) * 16 + c \div 4
                  IN  IF s[4] = "="
                      THEN [bytes |-> <<b1, b2>>, err |-> Len(s) > 4]
                      ELSE IF ~IsB64Char(s[4]) THEN [bytes |-> <<>>, err |-> TRUE]
                      ELSE LET d == B64Value(s[4])
                               b3 == (c % 4) * 64 + d
                               rest == StdDecodeString(SubSeq(s, 5, Len(s)))
                           IN  [bytes |-> <<b1, b2, b3>> \o rest.bytes, err |-> rest.err]

\* ------------------------------------------------------------------ tables

SignatureAlgorithm ==
    <<"UnknownSignatureAlgorithm", "MD2WithRSA", "MD5WithRSA", "SHA1WithRSA",
      "SHA256WithRSA", "SHA384WithRSA", "SHA512WithRSA", "DSAWithSHA1", "DSAWithSHA256",
      "ECDSAWithSHA1", "ECDSAWithSHA256", "ECDSAWithSHA384", "ECDSAWithSHA512">>

ExtKeyUsage ==
    <<"ExtKeyUsageAny", "ExtKeyUsageServerAuth", "ExtKeyUsageClientAuth",
      "ExtKeyUsageCodeSigning", "ExtKeyUsageEmailProtection", "ExtKeyUsageIPSECEndSystem",
      "ExtKeyUsageIPSECTunnel", "ExtKeyUsageIPSECUser", "ExtKeyUsageTimeStamping",
      "ExtKeyUsageOCSPSigning", "ExtKeyUsageMicrosoftServerGatedCrypto",
      "ExtKeyUsageNetscapeServerGatedCrypto">>

PublicKeyAlgorithm == <<"UnknownPublicKeyAlgorithm", "RSA", "DSA", "ECDSA">>

\* --------------------------------------------------- the parsed certificate

\* (t Time) UTC(): the same instant, shown in UTC
UTC(t) == [instant |-> t.instant, loc |-> "UTC"]

\* time.Now(): the reading of the clock, in the local zone
TimeNow(clock) == [instant |-> clock, loc |-> "Local"]

\* asn1.ObjectIdentifier String(): the arcs in decimal, joined by "."
OIDString(oid) == StringsJoin([k \in 1..Len(oid) |-> Itoa(oid[k])], <<".">>)

\* the keys a certificate can carry, one of each type the code switches on;
\* a certificate of an unknown key algorithm has no parsed key
NoPublicKey == [kind |-> "nil"]

RSAPublicKey == [kind |-> "rsa", N |-> 187, E |-> 3]

DSAPublicKey == [kind |-> "dsa", P |-> 23, Q |-> 11, G |-> 4, Y |-> 8]

ECDSAPublicKey ==
    [kind |-> "ecdsa", Curve |-> [Name |-> "P-256", BitSize |-> 256], X |-> 5, Y |-> 7]

\* the key of a certificate whose PublicKeyAlgorithm is alg (0 unknown, 1 RSA,
\* 2 DSA, 3 ECDSA)
PublicKeyOf(alg) ==
    CASE alg = 1 -> RSAPublicKey
      [] alg = 2 -> DSAPublicKey
      [] alg = 3 -> ECDSAPublicKey
      [] OTHER -> NoPublicKey

\* x509.MarshalPKIXPublicKey: [der, err]. It encodes RSA and ECDSA keys and
\* returns an error, and no bytes, for every other type.
MarshalPKIXPublicKey(pub) ==
    CASE pub.kind = "rsa" -> [der |-> <<48, 1, pub.N, pub.E>>, err |-> FALSE]
      [] pub.kind = "ecdsa" -> [der |-> <<48, 3, pub.X, pub.Y>>, err |-> FALSE]
      [] OTHER -> [der |-> <<>>, err |-> TRUE]

\* the names the toy DER can name
PkixNames ==
    <<[Country |-> SliceOf(<< <<"a">> >>), Organization |-> NilSlice,
       OrganizationalUnit |-> NilSlice, CommonName |-> <<"a">>],
      [Country |-> SliceOf(<< <<"a">> >>), Organization |-> SliceOf(<< <<"b">> >>),
       OrganizationalUnit |-> NilSlice, CommonName |-> <<"b">>]>>

DNSNameTable == <<"example.com", "example.org">>

\* The certificates come as bytes. The layout stands in for DER:
\*   1 version, 2 flags (1 IsCA, 2 BasicConstraintsValid), 3 key algorithm,
\*   4-5 key usage, 6 subject, 7 issuer, 8 the number n of permitted DNS
\*   domains, then n bytes naming them.
\* The flags are independent, so that every combination CertToStored can be
\* called with occurs.
DERHeader ==
    <<"version", "flags", "keyAlgorithm", "keyUsageHigh", "keyUsageLow", "subject",
      "issuer", "permittedCount">>

DERHeaderLen == Len(DERHeader)

ValidDER(raw) ==
    /\ Len(raw) >= DERHeaderLen
    /\ raw[1] >= 1
    /\ raw[2] \in 0..3
    /\ raw[3] \in 0..3
    /\ raw[4] \in 0..1
    /\ raw[6] \in 1..Len(PkixNames)
    /\ raw[7] \in 1..Len(PkixNames)
    /\ Len(raw) = DERHeaderLen + raw[8]
    /\ \A k \in 1..raw[8] : raw[DERHeaderLen + k] \in 1..Len(DNSNameTable)

\* x509.ParseCertificate: [cert, err]. Lists the certificate does not carry
\* stay nil.
ParseCertificate(raw) ==
    IF ~ValidDER(raw) THEN [cert |-> None, err |-> TRUE]
    ELSE [err |-> FALSE,
          cert |->
            [Raw |-> raw,
             RawSubject |-> <<raw[6]>>,
             RawSubjectPublicKeyInfo |-> <<raw[3]>>,
             Version |-> raw[1],
             SerialNumber |-> <<1, 171>>,
             SignatureAlgorithm |-> 4,
             PublicKeyAlgorithm |-> raw[3],
             PublicKey |-> PublicKeyOf(raw[3]),
             Issuer |-> PkixNames[raw[7]],
             Subject |-> PkixNames[raw[6]],
             NotBefore |-> [instant |-> 0, loc |-> "UTC"],
             NotAfter |-> [instant |-> 9, loc |-> "UTC"],
             KeyUsage |-> raw[4] * 256 + raw[5],
             ExtKeyUsage |-> SliceOf(<<1>>),
             UnknownExtKeyUsage |-> SliceOf(<< <<1, 3, 6, 1, 4, 1, 311, 10, 3, 3>> >>),
             PolicyIdentifiers |-> SliceOf(<< <<2, 23, 140, 1, 2, 1>> >>),
             DNSNames |-> SliceOf(<<"example.com">>),
             CRLDistributionPoints |-> NilSlice,
             PermittedDNSDomains |->
                 IF raw[8] = 0 THEN NilSlice
                 ELSE SliceOf([k \in 1..raw[8] |-> DNSNameTable[raw[DERHeaderLen + k]]]),
             AuthorityKeyId |-> <<raw[7], 7>>,
             SubjectKeyId |-> <<raw[6], 7>>,
             BasicConstraintsValid |-> (raw[2] \div 2) % 2 = 1,
             IsCA |-> raw[2] % 2 = 1]]

\* ------------------------------------------------------------ fingerprints

SHA256SubjectSPKI(c) ==
    SprintfX(Sha256Sum(c.RawSubject \o c.RawSubjectPublicKeyInfo))

\* PKPSHA256Hash: the hash is fed the encoded key in the three cases of the
\* switch (the error of the encoder is dropped) and nothing otherwise; the sum
\* is taken and encoded in every case.
PKPSHA256Hash(c) ==
    LET pub == c.PublicKey
        written ==
            CASE pub.kind = "rsa" -> MarshalPKIXPublicKey(pub).der
              [] pub.kind = "dsa" -> MarshalPKIXPublicKey(pub).der
              [] pub.kind = "ecdsa" -> MarshalPKIXPublicKey(pub).der
              [] OTHER -> <<>>
    IN  StdEncodeToString(Sha256Sum(written))

SHA256Hash(data) == SprintfX(Sha256Sum(data))

MD5Hash(data) == SprintfX(Md5Sum(data))

SHA1Hash(data) == SprintfX(Sha1Sum(data))

\* -------------------------------------------------------------- extensions

getExtKeyUsages(c) ==
    LET usage0 == MakeSlice
        usage1 == AppendAll(usage0,
                      SliceOf([k \in 1..GoLen(c.ExtKeyUsage) |->
                                   ExtKeyUsage[c.ExtKeyUsage.elems[k] + 1]]))
        usage2 == AppendAll(usage1,
                      SliceOf([k \in 1..GoLen(c.UnknownExtKeyUsage) |->
                                   OIDString(c.UnknownExtKeyUsage.elems[k])]))
    IN  [isNil |-> FALSE, elems |-> usage2.elems]

getPolicyIdentifiers(c) ==
    [isNil |-> FALSE,
     elems |-> [k \in 1..GoLen(c.PolicyIdentifiers) |->
                    OIDString(c.PolicyIdentifiers.elems[k])]]

\* faulty variant: the list of the parser is stored as it is, nil included
PermittedNames_NoMake(c) == c.PermittedDNSDomains

\* pnames := make([]string, 0); pnames = append(pnames, cert.PermittedDNSDomains...)
PermittedNames(c) == AppendAll(MakeSlice, c.PermittedDNSDomains)

getCertExtensions(c) ==
    LET san == AppendAll(MakeSlice, c.DNSNames)
        crld == AppendAll(MakeSlice, c.CRLDistributionPoints)
        pnames == PermittedNames(c)
        ext == [AuthorityKeyId |-> StdEncodeToString(c.AuthorityKeyId),
                SubjectKeyId |-> StdEncodeToString(c.SubjectKeyId),
                KeyUsage |-> getKeyUsages(c),
                ExtendedKeyUsage |-> getExtKeyUsages(c),
                PolicyIdentifiers |-> getPolicyIdentifiers(c),
                SubjectAlternativeName |-> san,
                CRLDistributionPoints |-> crld,
                PermittedNames |-> pnames,
                IsNameConstrained |-> FALSE]
    IN  IF GoLen(ext.PermittedNames) > 0
        THEN [ext EXCEPT !.IsNameConstrained = TRUE]
        ELSE ext

\* the zero value of SubjectPublicKeyInfo but for Alg
PubInfoOf(alg) ==
    [Alg |-> alg, Size |-> 0, Exponent |-> 0, X |-> <<>>, Y |-> <<>>, P |-> <<>>,
     Q |-> <<>>, G |-> <<>>, Curve |-> ""]

\* getPublicKeyInfo; MarshalText of a big.Int returns no error
getPublicKeyInfo(c) ==
    LET pubInfo == PubInfoOf(PublicKeyAlgorithm[c.PublicKeyAlgorithm + 1])
        pub == c.PublicKey
    IN  CASE pub.kind = "rsa" ->
                 [pubInfo EXCEPT !.Size = BitLen(pub.N), !.Exponent = pub.E]
          [] pub.kind = "dsa" ->
                 [pubInfo EXCEPT !.Size = BitLen(pub.Y), !.G = Itoa(pub.G),
                                 !.P = Itoa(pub.P), !.Q = Itoa(pub.Q), !.Y = Itoa(pub.Y)]
          [] pub.kind = "ecdsa" ->
                 [pubInfo EXCEPT !.Size = pub.Curve.BitSize, !.Curve = pub.Curve.Name,
                                 !.Y = Itoa(pub.Y), !.X = Itoa(pub.X)]
          [] OTHER -> pubInfo

\* ------------------------------------------------------------ CertToStored

\* faulty variant: version 3 is treated as a version without extensions
BasicConstraints_VersionOffByOne(c) ==
    IF c.Version <= 3
    THEN [X509v3BasicConstraints |-> "", CA |-> c.IsCA]
    ELSE IF c.BasicConstraintsValid
         THEN [X509v3BasicConstraints |-> "Critical", CA |-> c.IsCA]
         ELSE [X509v3BasicConstraints |-> "", CA |-> FALSE]

\* the basic constraints of the stored record: its display string and its CA
\* flag
BasicConstraints(c) ==
    IF c.Version < 3
    THEN [X509v3BasicConstraints |-> "", CA |-> c.IsCA]
    ELSE IF c.BasicConstraintsValid
         THEN [X509v3BasicConstraints |-> "Critical", CA |-> c.IsCA]
         ELSE [X509v3BasicConstraints |-> "", CA |-> FALSE]

\* faulty variant: the scan target is recorded for CA certificates too
ScanTargetOf_Always(c, domain, ip) ==
    [ScanTarget |-> domain, IPs |-> AppendOne(MakeSlice, ip)]

\* the scan target and the IPs of the stored record
ScanTargetOf(c, domain, ip) ==
    IF ~c.IsCA
    THEN [ScanTarget |-> domain, IPs |-> AppendOne(MakeSlice, ip)]
    ELSE [ScanTarget |-> "", IPs |-> MakeSlice]

\* faulty variant: the map starts with an entry for every trust store
ValidationInfoOf_OverAllStores(TSName, valInfo) ==
    MapSet(GetValidityMap(FALSE, FALSE, FALSE, FALSE, FALSE), TSName, valInfo.v)

\* stored.ValidationInfo = make(map[string]ValidationInfo);
\* stored.ValidationInfo[TSName] = *valInfo
ValidationInfoOf(TSName, valInfo) == MapSet(MakeMap, TSName, valInfo.v)

\* CertToStored for a valInfo that is not nil; clock is what time.Now() reads
CertToStored(c, parentSignature, domain, ip, TSName, valInfo, clock) ==
    LET bc == BasicConstraints(c)
        t == UTC(TimeNow(clock))
        target == ScanTargetOf(c, domain, ip)
    IN  [ID |-> 0,
         Serial |-> ToUpper(HexEncodeToString(c.SerialNumber)),
         ScanTarget |-> target.ScanTarget,
         IPs |-> target.IPs,
         Version |-> c.Version,
         SignatureAlgorithm |-> SignatureAlgorithm[c.SignatureAlgorithm + 1],
         Issuer |-> [ID |-> 0,
                     Country |-> c.Issuer.Country,
                     Organisation |-> c.Issuer.Organization,
                     OrgUnit |-> c.Issuer.OrganizationalUnit,
                     CommonName |-> c.Issuer.CommonName],
         Validity |-> [NotBefore |-> UTC(c.NotBefore), NotAfter |-> UTC(c.NotAfter)],
         Subject |-> [ID |-> 0,
                      Country |-> c.Subject.Country,
                      Organisation |-> c.Subject.Organization,
                      OrgUnit |-> c.Subject.OrganizationalUnit,
                      CommonName |-> c.Subject.CommonName],
         Key |-> getPublicKeyInfo(c),
         X509v3Extensions |-> getCertExtensions(c),
         X509v3BasicConstraints |-> bc.X509v3BasicConstraints,
         CA |-> bc.CA,
         Analysis |-> None,
         ParentSignature |-> AppendOne(MakeSlice, parentSignature),
         ValidationInfo |-> ValidationInfoOf(TSName, valInfo),
         FirstSeenTimestamp |-> t,
         LastSeenTimestamp |-> t,
         Hashes |-> [MD5 |-> MD5Hash(c.Raw),
                     SHA1 |-> SHA1Hash(c.Raw),
                     SHA256 |-> SHA256Hash(c.Raw),
                     SHA256SubjectSPKI |-> SHA256SubjectSPKI(c),
                     PKPSHA256 |-> PKPSHA256Hash(c)],
         Raw |-> StdEncodeToString(c.Raw),
         Anomalies |-> ""]

\* (cert Certificate) ToX509(): [cert, err]
ToX509(c) ==
    LET certRaw == StdDecodeString(c.Raw)
    IN  IF certRaw.err THEN [cert |-> None, err |-> TRUE]
        ELSE ParseCertificate(certRaw.bytes)

\* ------------------------------------------------------ inputs of the calls

SeqsUpTo(S, n) == UNION {[1..k -> S] : k \in 0..n}

\* every slice of at most n elements of S, nil and empty both
Slices(S, n) == {NilSlice} \cup {SliceOf(q) : q \in SeqsUpTo(S, n)}

\* names as they occur in certificates: empty, plain, and one holding ", "
NameValues == {<<>>, <<"a">>, <<"b", ",", " ">>}

OrgValues == {<<"a">>, <<"b", ",", " ">>}

Subjects ==
    [Country : Slices(NameValues, MaxList),
     Organisation : Slices(OrgValues, MaxList),
     OrgUnit : Slices(OrgValues, MaxList),
     CommonName : NameValues]

PairNames == {<<"a">>, <<"b">>}

\* the subjects and issuers IsSelfSigned is called on
PairSubjects ==
    [Country : Slices(PairNames, MaxList),
     Organisation : {NilSlice, SliceOf(<< <<"a">>, <<"b">> >>), SliceOf(<< <<"a">>, <<"a">> >>)},
     OrgUnit : {MakeSlice, SliceOf(<< <<"a">>, <<"b">> >>), SliceOf(<< <<"b">>, <<"b">> >>)},
     CommonName : {<<>>, <<"a">>}]

ValidationInfos ==
    [IsValid : BOOLEAN, ValidationError : {"", "x509: certificate has expired"}]

\* a map may hold a key that is no trust store: CertToStored takes any TSName
MapKeys == TrustStoreNames \cup {"Other"}

ValidationMaps ==
    {NilMap} \cup
    {[isNil |-> FALSE, kv |-> f] : f \in UNION {[K -> ValidationInfos] : K \in SUBSET MapKeys}}

\* the nine bits x509 parses a key usage into
KeyUsages == 0..(2^9 - 1)

\* ------------------------------------------- calls of the pure functions

Idle ==
    /\ now = 0
    /\ cert = None
    /\ args = None
    /\ stored = None
    /\ again = None

Return(v) ==
    /\ pc' = "return"
    /\ ret' = v
    /\ UNCHANGED <<now, cert, args, stored, again, arg>>

Pending(op) == pc = "call" /\ arg.op = op

Returned(op) == pc = "return" /\ arg.op = op

InitString ==
    /\ Idle /\ pc = "call" /\ ret = None
    /\ arg \in [op : {"String"}, s : Subjects]

CallString == Pending("String") /\ Return(Subject_String(arg.s))

SpecString == InitString /\ [][CallString]_vars

InitSelfSigned ==
    /\ Idle /\ pc = "call" /\ ret = None
    /\ arg \in [op : {"IsSelfSigned"}, c : [Subject : PairSubjects, Issuer : PairSubjects]]

CallIsSelfSigned == Pending("IsSelfSigned") /\ Return(IsSelfSigned(arg.c))

SpecSelfSigned == InitSelfSigned /\ [][CallIsSelfSigned]_vars

InitValidity ==
    /\ Idle /\ pc = "call" /\ ret = None
    /\ \/ arg \in [op : {"GetBooleanValidity"}, c : [ValidationInfo : ValidationMaps]]
       \/ arg \in [op : {"GetValidityMap"}, b : [1..5 -> BOOLEAN]]

CallGetBooleanValidity ==
    Pending("GetBooleanValidity") /\ Return(GetBooleanValidity(arg.c))

CallGetValidityMap ==
    /\ Pending("GetValidityMap")
    /\ Return(GetValidityMap(arg.b[1], arg.b[2], arg.b[3], arg.b[4], arg.b[5]))

NextValidity == CallGetBooleanValidity \/ CallGetValidityMap

SpecValidity == InitValidity /\ [][NextValidity]_vars

\* the result of one conversion handed to the other: ret keeps the first
\* result and takes the second
Return2(v) ==
    /\ pc' = "return2"
    /\ ret' = [first |-> ret, second |-> v]
    /\ UNCHANGED <<now, cert, args, stored, again, arg>>

Returned2(op) == pc = "return2" /\ arg.op = op

\* Certificate{ValidationInfo: GetValidityMap(b...)}.GetBooleanValidity()
CallBooleanValidityOfMap ==
    /\ Returned("GetValidityMap")
    /\ Return2(GetBooleanValidity([ValidationInfo |-> ret]))

\* GetValidityMap(c.GetBooleanValidity())
CallValidityMapOfBooleans ==
    /\ Returned("GetBooleanValidity")
    /\ Return2(GetValidityMap(ret[1], ret[2], ret[3], ret[4], ret[5]))

NextRoundTrip ==
    \/ CallGetBooleanValidity
    \/ CallGetValidityMap
    \/ CallBooleanValidityOfMap
    \/ CallValidityMapOfBooleans

SpecRoundTrip == InitValidity /\ [][NextRoundTrip]_vars

InitKeyUsage ==
    /\ Idle /\ pc = "call" /\ ret = None
    /\ arg \in [op : {"getKeyUsages"}, c : [KeyUsage : KeyUsages]]

CallGetKeyUsages == Pending("getKeyUsages") /\ Return(getKeyUsages(arg.c))

SpecKeyUsage == InitKeyUsage /\ [][CallGetKeyUsages]_vars

\* ------------------------------------------- canonicalizing a certificate

DERs ==
    {<<v, f, a, ku[1], ku[2], names[1], names[2], Len(p)>> \o p :
        v \in 1..MaxVersion, f \in 0..3, a \in 0..3,
        ku \in {<<1, 161>>}, names \in {<<1, 2>>},
        p \in SeqsUpTo({1}, MaxPermitted)}

\* valInfo is a pointer: nil, or the address of a ValidationInfo
NilValInfo == [isNil |-> TRUE, v |-> ZeroValidationInfo]

ValInfoPointers ==
    {NilValInfo,
     [isNil |-> FALSE, v |-> [IsValid |-> TRUE, ValidationError |-> ""]],
     [isNil |-> FALSE,
      v |-> [IsValid |-> FALSE, ValidationError |-> "x509: certificate has expired"]]}

Init ==
    /\ pc = "ready"
    /\ now = 0
    /\ \E der \in DERs : cert = ParseCertificate(der).cert
    /\ args \in [parentSignature : {"-- --"}, domain : {"example.com"},
                 ip : {"192.0.2.1"}, TSName : MapKeys, valInfo : ValInfoPointers]
    /\ stored = None
    /\ again = None
    /\ arg = None
    /\ ret = None

\* the clock moves on between any two steps, or does not
Tick ==
    /\ now < MaxClock
    /\ now' = now + 1
    /\ UNCHANGED <<pc, cert, args, stored, again, arg, ret>>

\* CertToStored(cert, parentSignature, domain, ip, TSName, valInfo); *valInfo
\* of a nil valInfo panics and nothing is returned
CallCertToStored ==
    /\ pc = "ready"
    /\ IF args.valInfo.isNil
       THEN pc' = "panic" /\ UNCHANGED stored
       ELSE /\ pc' = "stored"
            /\ stored' = CertToStored(cert, args.parentSignature, args.domain, args.ip,
                                      args.TSName, args.valInfo, now)
    /\ UNCHANGED <<now, cert, args, again, arg, ret>>

\* stored.ToX509(), then CertToStored of the result with the same arguments
Recanonicalize ==
    /\ pc = "stored"
    /\ LET x == ToX509(stored)
       IN  IF x.err
           THEN pc' = "reparse_failed" /\ UNCHANGED again
           ELSE /\ pc' = "again"
                /\ again' = CertToStored(x.cert, args.parentSignature, args.domain,
                                         args.ip, args.TSName, args.valInfo, now)
    /\ UNCHANGED <<now, cert, args, stored, arg, ret>>

Next == Tick \/ CallCertToStored \/ Recanonicalize

Spec == Init /\ [][Next]_vars

\* ------------------------------------------------------------------ C1

\* C1 as stated: the record CertToStored returns has exactly the five
\* trust-store keys in its validationInfo.
C1_FiveKeysAfterCertToStored ==
    pc = "stored" =>
        /\ Cardinality(DOMAIN stored.ValidationInfo.kv) = 5
        /\ DOMAIN stored.ValidationInfo.kv = TrustStoreNames

\* C1 (amended): the record CertToStored returns has exactly one key in its
\* validationInfo, TSName, holding *valInfo (a nil valInfo panics); the maps
\* with exactly the five trust-store keys are those GetValidityMap builds.
C1_OneKeyAfterCertToStored ==
    /\ pc = "stored" =>
           /\ ~stored.ValidationInfo.isNil
           /\ DOMAIN stored.ValidationInfo.kv = {args.TSName}
           /\ stored.ValidationInfo.kv[args.TSName] = args.valInfo.v
    /\ pc = "panic" => args.valInfo.isNil /\ stored = None
    /\ \A b \in [1..5 -> BOOLEAN] :
           DOMAIN GetValidityMap(b[1], b[2], b[3], b[4], b[5]).kv = TrustStoreNames

\* CertToStored returned for TSName "Mozilla" and a failed validation
C1_Witness ==
    /\ pc = "stored"
    /\ args.TSName = "Mozilla"
    /\ ~args.valInfo.v.IsValid
    /\ DOMAIN stored.ValidationInfo.kv = {"Mozilla"}

\* ------------------------------------------------------------------ C5

\* C5: the stored ca is true exactly when Version < 3 and IsCA, or
\* Version >= 3 and BasicConstraintsValid and IsCA.
C5_CAIff ==
    pc = "stored" =>
        (stored.CA = TRUE <=>
            \/ cert.Version < 3 /\ cert.IsCA
            \/ cert.Version >= 3 /\ cert.BasicConstraintsValid /\ cert.IsCA)

\* a version 3 certificate flagged IsCA without valid basic constraints is
\* stored with ca false
C5_Witness ==
    /\ pc = "stored"
    /\ cert.Version = 3
    /\ cert.IsCA
    /\ ~cert.BasicConstraintsValid
    /\ stored.CA = FALSE

\* ------------------------------------------------------------------ C6

\* C6: a record stored with ca true has an empty scanTarget and no IPs.
C6_CAHasNoScanTarget ==
    (pc = "stored" /\ stored.CA) =>
        /\ stored.ScanTarget = ""
        /\ stored.IPs.elems = <<>>

\* a CA certificate canonicalized with a domain and an ip
C6_Witness ==
    /\ pc = "stored"
    /\ stored.CA
    /\ args.domain # ""
    /\ args.ip # ""
    /\ stored.ScanTarget = ""

\* ------------------------------------------------------------------ C7

KnownKeyKinds == {"rsa", "dsa", "ecdsa"}

\* C7 as stated: the pin of a certificate with a key of unknown algorithm is
\* the empty string; for an RSA, DSA or ECDSA key it is the padded base64 of
\* the SHA-256 of the key's PKIX encoding.
C7_PinEmptyForUnknownKey ==
    pc = "stored" =>
        IF cert.PublicKey.kind \in KnownKeyKinds
        THEN stored.Hashes.PKPSHA256 =
                 StdEncodeToString(Sha256Sum(MarshalPKIXPublicKey(cert.PublicKey).der))
        ELSE stored.Hashes.PKPSHA256 = <<>>

\* ------------------------------------------------------------------ C8

\* C8 as stated: canonicalizing the decoded raw field again, with the same
\* arguments, gives a record equal to the first in every field.
C8_RecanonicalizedEqual ==
    /\ pc # "reparse_failed"
    /\ pc = "again" => again = stored

\* C8 (amended): the raw field decodes and parses, and canonicalizing it again
\* with the same arguments gives a record equal to the first in every field
\* but firstSeen and lastSeen, which are the time of the second call and so
\* are equal to each other and not earlier than those of the first record.
C8_RecanonicalizedEqualButTimestamps ==
    /\ pc # "reparse_failed"
    /\ pc = "again" =>
           /\ [again EXCEPT !.FirstSeenTimestamp = stored.FirstSeenTimestamp,
                            !.LastSeenTimestamp = stored.LastSeenTimestamp] = stored
           /\ again.FirstSeenTimestamp = again.LastSeenTimestamp
           /\ again.FirstSeenTimestamp.instant >= stored.FirstSeenTimestamp.instant

\* a second canonicalization made after the clock moved on, of a certificate
\* whose encoding needs base64 padding
C8_Witness ==
    /\ pc = "again"
    /\ Len(cert.Raw) % 3 # 0
    /\ again.FirstSeenTimestamp.instant > stored.FirstSeenTimestamp.instant
    /\ again.Raw = stored.Raw

\* ------------------------------------------------------------------ C9

\* C9: isNameConstrained is true exactly when permittedNames is non-empty,
\* and permittedNames is an empty list, not null, for a certificate without
\* permitted DNS domains.
C9_NameConstrainedIff ==
    pc = "stored" =>
        LET ext == stored.X509v3Extensions
        IN  /\ ext.IsNameConstrained = TRUE <=> GoLen(ext.PermittedNames) > 0
            /\ ~ext.PermittedNames.isNil
            /\ ext.PermittedNames.elems = cert.PermittedDNSDomains.elems

\* a certificate without permitted DNS domains, stored with an empty list
C9_Witness ==
    /\ pc = "stored"
    /\ cert.PermittedDNSDomains.isNil
    /\ stored.X509v3Extensions.PermittedNames = MakeSlice
    /\ ~stored.X509v3Extensions.IsNameConstrained

\* ------------------------------------------------------------------ C2

SameList(a, b) ==
    /\ Len(a.elems) = Len(b.elems)
    /\ \A k \in 1..Len(a.elems) : a.elems[k] = b.elems[k]

\* C2: IsSelfSigned(c) is true exactly when the common names are equal and the
\* Country, Organisation and OrgUnit lists of subject and issuer have the same
\* length and the same element at every index.
C2_SelfSignedIff ==
    Returned("IsSelfSigned") =>
        (ret = TRUE <=>
            /\ arg.c.Subject.CommonName = arg.c.Issuer.CommonName
            /\ SameList(arg.c.Subject.Country, arg.c.Issuer.Country)
            /\ SameList(arg.c.Subject.Organisation, arg.c.Issuer.Organisation)
            /\ SameList(arg.c.Subject.OrgUnit, arg.c.Issuer.OrgUnit))

\* a call that returned false on two subjects that differ only in the second
\* country
C2_Witness ==
    /\ Returned("IsSelfSigned")
    /\ ret = FALSE
    /\ arg.c.Subject.CommonName = arg.c.Issuer.CommonName
    /\ arg.c.Subject.Organisation = arg.c.Issuer.Organisation
    /\ arg.c.Subject.OrgUnit = arg.c.Issuer.OrgUnit
    /\ GoLen(arg.c.Subject.Country) = 2
    /\ GoLen(arg.c.Issuer.Country) = 2
    /\ arg.c.Subject.Country.elems[1] = arg.c.Issuer.Country.elems[1]
    /\ arg.c.Subject.Country.elems[2] # arg.c.Issuer.Country.elems[2]

\* ------------------------------------------------------------------ C3

Prefixed(prefix, list) == [k \in 1..Len(list) |-> prefix \o list[k]]

\* the components of a subject, one per list element and one for a non-empty
\* common name, in the order C, O, OU, CN
Components(s) ==
    Prefixed(<<"C", "=">>, s.Country.elems)
    \o Prefixed(<<"O", "=">>, s.Organisation.elems)
    \o Prefixed(<<"O", "U", "=">>, s.OrgUnit.elems)
    \o (IF s.CommonName = <<>> THEN <<>> ELSE << <<"C", "N", "=">> \o s.CommonName >>)

\* the value rendered last: the common name, else the last element of the last
\* list that has one
LastValue(s) ==
    IF s.CommonName # <<>> THEN s.CommonName
    ELSE IF GoLen(s.OrgUnit) > 0 THEN s.OrgUnit.elems[GoLen(s.OrgUnit)]
    ELSE IF GoLen(s.Organisation) > 0 THEN s.Organisation.elems[GoLen(s.Organisation)]
    ELSE IF GoLen(s.Country) > 0 THEN s.Country.elems[GoLen(s.Country)]
    ELSE <<>>

AllEmpty(s) ==
    /\ GoLen(s.Country) = 0
    /\ GoLen(s.Organisation) = 0
    /\ GoLen(s.OrgUnit) = 0
    /\ s.CommonName = <<>>

\* C3 as stated: String() is the components joined by ", ", and the result
\* never starts or ends with the separator and is empty when all four
\* components are empty.
C3_StringNeverEndsWithSeparator ==
    Returned("String") =>
        /\ ret = StringsJoin(Components(arg.s), Comma)
        /\ ~HasPrefix(ret, Comma)
        /\ ~HasSuffix(ret, Comma)
        /\ (AllEmpty(arg.s) => ret = <<>>)

\* C3 (amended): String() is the components joined by ", " in the order C, O,
\* OU, CN, empty components omitted; the result never starts with the
\* separator, ends with it only when the value rendered last itself ends with
\* ", ", and is empty when all four components are empty.
C3_StringIsJoinedComponents ==
    Returned("String") =>
        /\ ret = StringsJoin(Components(arg.s), Comma)
        /\ ~HasPrefix(ret, Comma)
        /\ (HasSuffix(ret, Comma) => HasSuffix(LastValue(arg.s), Comma))
        /\ (AllEmpty(arg.s) => ret = <<>>)

\* String() returned for a subject with two countries, no organisation, one
\* unit and no common name
C3_Witness ==
    /\ Returned("String")
    /\ GoLen(arg.s.Country) = 2
    /\ GoLen(arg.s.Organisation) = 0
    /\ GoLen(arg.s.OrgUnit) = 1
    /\ arg.s.CommonName = <<>>
    /\ ret = <<"C", "=", "a", ",", " ", "C", "=", ",", " ", "O", "U", "=", "a">>

\* ------------------------------------------------------------------ C4

\* the trust store each result of GetBooleanValidity is named after
ResultStore == <<"Ubuntu", "Mozilla", "Microsoft", "Apple", "Android">>

\* C4: each of the five results of GetBooleanValidity is the IsValid flag
\* stored under its trust store's key, and false when the key is absent; no
\* other key and no ValidationError has a part in it.
C4_BooleanValidityPerStore ==
    Returned("GetBooleanValidity") =>
        \A i \in 1..5 :
            ret[i] = IF ResultStore[i] \in DOMAIN arg.c.ValidationInfo.kv
                     THEN arg.c.ValidationInfo.kv[ResultStore[i]].IsValid
                     ELSE FALSE

\* a call on a map without Ubuntu, with Apple valid despite an error text and
\* Android invalid
C4_Witness ==
    /\ Returned("GetBooleanValidity")
    /\ DOMAIN arg.c.ValidationInfo.kv = {"Mozilla", "Apple", "Android", "Other"}
    /\ arg.c.ValidationInfo.kv["Apple"] =
           [IsValid |-> TRUE, ValidationError |-> "x509: certificate has expired"]
    /\ arg.c.ValidationInfo.kv["Other"].IsValid
    /\ ret = <<FALSE, TRUE, FALSE, TRUE, FALSE>>

\* ------------------------------------------------------------------ C10

KeyUsageNames ==
    <<"Digital Signature", "Non Repudiation", "Key Encipherment", "Data Encipherment",
      "Key Agreement", "Certificate Sign", "CRL Sign", "Encipher Only", "Decipher Only">>

SetBits(k) == {i \in 0..8 : (k \div 2^i) % 2 = 1}

BitOfName(name) == CHOOSE i \in 0..8 : KeyUsageNames[i + 1] = name

\* C10: getKeyUsages returns the names of the set bits of the bitmap, each
\* once, in ascending bit order; a non-nil empty list when no bit is set; as
\* many names as bits are set.
C10_KeyUsagesAreSetBits ==
    Returned("getKeyUsages") =>
        LET r == ret.elems
            bits == SetBits(arg.c.KeyUsage)
        IN  /\ ~ret.isNil
            /\ Len(r) = Cardinality(bits)
            /\ \A j \in 1..Len(r) : \E i \in bits : r[j] = KeyUsageNames[i + 1]
            /\ \A i \in bits : \E j \in 1..Len(r) : r[j] = KeyUsageNames[i + 1]
            /\ \A j \in 1..Len(r) : \A k \in 1..Len(r) :
                   j < k => BitOfName(r[j]) < BitOfName(r[k])

\* the call on the bitmap with bits 0, 5, 6 and 8 set
C10_Witness ==
    /\ Returned("getKeyUsages")
    /\ arg.c.KeyUsage = 1 + 32 + 64 + 256
    /\ ret.elems = <<"Digital Signature", "Certificate Sign", "CRL Sign", "Decipher Only">>

\* ------------------------------------------------------------------ C11

\* the five booleans come back from the map built of them, and that map has
\* exactly the five trust-store keys
BooleansComeBack ==
    Returned2("GetValidityMap") =>
        /\ \A i \in 1..5 : ret.second[i] = arg.b[i]
        /\ DOMAIN ret.first.kv = TrustStoreNames
        /\ Cardinality(DOMAIN ret.first.kv) = 5

\* C11 as stated: GetBooleanValidity of GetValidityMap(b) is b and the map has
\* the five trust-store keys; GetValidityMap of GetBooleanValidity(c) keeps
\* every IsValid flag of c, has every ValidationError empty and holds the keys
\* c lacked with IsValid false.
C11_RoundTripKeepsEveryFlag ==
    /\ BooleansComeBack
    /\ Returned2("GetBooleanValidity") =>
           LET c == arg.c.ValidationInfo.kv
               r == ret.second.kv
           IN  /\ \A k \in DOMAIN c : k \in DOMAIN r /\ r[k].IsValid = c[k].IsValid
               /\ \A k \in DOMAIN r : r[k].ValidationError = ""
               /\ \A k \in TrustStoreNames \ DOMAIN c : k \in DOMAIN r /\ ~r[k].IsValid

\* C11 (amended): GetBooleanValidity of GetValidityMap(b) is b and the map has
\* the five trust-store keys; GetValidityMap of GetBooleanValidity(c) has
\* exactly the five trust-store keys, keeps the IsValid flag of every
\* trust-store key of c, has every ValidationError empty, holds the
\* trust-store keys c lacked with IsValid false, and drops every key of c
\* that names no trust store.
C11_RoundTripKeepsTrustStoreFlags ==
    /\ BooleansComeBack
    /\ Returned2("GetBooleanValidity") =>
           LET c == arg.c.ValidationInfo.kv
               r == ret.second.kv
           IN  /\ DOMAIN r = TrustStoreNames
               /\ \A k \in (DOMAIN c) \cap TrustStoreNames : r[k].IsValid = c[k].IsValid
               /\ \A k \in DOMAIN r : r[k].ValidationError = ""
               /\ \A k \in TrustStoreNames \ DOMAIN c : ~r[k].IsValid

\* the reverse round trip of a map without Ubuntu, with Mozilla valid despite
\* an error text, and with a key that names no trust store
C11_Witness ==
    /\ Returned2("GetBooleanValidity")
    /\ DOMAIN arg.c.ValidationInfo.kv = {"Mozilla", "Android", "Other"}
    /\ arg.c.ValidationInfo.kv["Mozilla"] =
           [IsValid |-> TRUE, ValidationError |-> "x509: certificate has expired"]
    /\ ~arg.c.ValidationInfo.kv["Android"].IsValid
    /\ ret.second.kv["Mozilla"] = [IsValid |-> TRUE, ValidationError |-> ""]
    /\ ~ret.second.kv["Ubuntu"].IsValid
    /\ "Other" \notin DOMAIN ret.second.kv

====
